---- MODULE Spec2Model ----
(***************************************************************************)
(* SecureBox (src/main.cpp): a ySize x xSize grid of booleans whose only   *)
(* mutator, toggle(y, x), flips a whole row and a whole column, and        *)
(* openBox, which builds the GF(2) system of the grid, runs Gauss-Jordan   *)
(* elimination on it and replays the solution as toggle calls.             *)
(***************************************************************************)
EXTENDS Integers, Sequences, FiniteSets, TLC

\* Largest number of cells y * x explored (openBox takes any uint32_t pair).
MaxCells == 9
\* Cap on the number of shuffle rounds explored (the code draws rng() % 1000).
MaxShuffle == 5

VARIABLES
    pc,       \* position in openBox
    ySize,    \* SecureBox::ySize
    xSize,    \* SecureBox::xSize
    box,      \* SecureBox::box
    t,        \* remaining rounds of SecureBox::shuffle
    state,    \* openBox: snapshot returned by getState()
    matrix,   \* openBox: augmented system, boxSize x (boxSize + 1)
    row,      \* openBox: next free pivot row
    col,      \* openBox: column the elimination loop is at
    index,    \* openBox: column -> pivot row, or -1
    ans,      \* openBox: solution vector
    q,        \* openBox: position of the toggle-application loop
    calls,    \* toggle calls issued by the application loop, in order
    trace,    \* a client's last two toggle calls: [pre, at]
    result    \* value returned by openBox

vars == <<pc, ySize, xSize, box, t, state, matrix, row, col, index, ans, q,
          calls, trace, result>>

\* The grid sizes explored: every (y, x) with at most MaxCells cells.
DimPairs == {d \in (0..MaxCells) \X (0..MaxCells) : d[1] * d[2] <= MaxCells}

XOR(a, b) == (a + b) % 2

ZeroBox(y, x) == [i \in 0..(y - 1) |-> [j \in 0..(x - 1) |-> FALSE]]

Grids(y, x) == [0..(y - 1) -> [0..(x - 1) -> BOOLEAN]]

\* const int boxSize = y * x
boxSize == ySize * xSize

--------------------------------------------------------------------------
\* SecureBox::toggle with the column loop copying the negated pivot cell.
toggleCopy(b, y, x) ==
    LET b1 == [i \in DOMAIN b |-> [k \in DOMAIN b[i] |->
                  IF i = y /\ k = x THEN ~b[i][k] ELSE b[i][k]]]
        b2 == [i \in DOMAIN b |-> [k \in DOMAIN b[i] |->
                  IF i = y /\ k \in 0..(xSize - 1) THEN ~b1[i][k] ELSE b1[i][k]]]
    IN  [i \in DOMAIN b |-> [k \in DOMAIN b[i] |->
            IF k = x /\ i \in 0..(ySize - 1) THEN ~b2[y][x] ELSE b2[i][k]]]

\* SecureBox::toggle with the row loop copying the negated pivot cell.
toggleCopyRow(b, y, x) ==
    LET b1 == [i \in DOMAIN b |-> [k \in DOMAIN b[i] |->
                  IF i = y /\ k = x THEN ~b[i][k] ELSE b[i][k]]]
        b2 == [i \in DOMAIN b |-> [k \in DOMAIN b[i] |->
                  IF i = y /\ k \in 0..(xSize - 1) THEN ~b1[y][x] ELSE b1[i][k]]]
    IN  [i \in DOMAIN b |-> [k \in DOMAIN b[i] |->
            IF k = x /\ i \in 0..(ySize - 1) THEN ~b2[i][k] ELSE b2[i][k]]]

\* SecureBox::toggle without the first statement: the cell is flipped twice.
toggleNoSelf(b, y, x) ==
    LET b2 == [i \in DOMAIN b |-> [k \in DOMAIN b[i] |->
                  IF i = y /\ k \in 0..(xSize - 1) THEN ~b[i][k] ELSE b[i][k]]]
    IN  [i \in DOMAIN b |-> [k \in DOMAIN b[i] |->
            IF k = x /\ i \in 0..(ySize - 1) THEN ~b2[i][k] ELSE b2[i][k]]]

\* SecureBox::toggle: b1 is the box after box[y][x] = !box[y][x], b2 after
\* the loop over i < xSize on row y, the result after the loop over
\* i < ySize on column x.
toggle(b, y, x) ==
    LET b1 == [i \in DOMAIN b |-> [k \in DOMAIN b[i] |->
                  IF i = y /\ k = x THEN ~b[i][k] ELSE b[i][k]]]
        b2 == [i \in DOMAIN b |-> [k \in DOMAIN b[i] |->
                  IF i = y /\ k \in 0..(xSize - 1) THEN ~b1[i][k] ELSE b1[i][k]]]
    IN  [i \in DOMAIN b |-> [k \in DOMAIN b[i] |->
            IF k = x /\ i \in 0..(ySize - 1) THEN ~b2[i][k] ELSE b2[i][k]]]

\* SecureBox::isLocked
isLocked(b) ==
    \E x \in 0..(xSize - 1) : \E y \in 0..(ySize - 1) : b[y][x]

\* Bookkeeping of the last two toggle calls.
Record(tr, b, y, x) ==
    LET e == [pre |-> b, at |-> <<y, x>>]
    IN  IF Len(tr) < 2 THEN Append(tr, e) ELSE <<tr[2], e>>

--------------------------------------------------------------------------
\* System construction without the loop over the cells of column j.
BuildMatrixRowOnly(st, y, x) ==
    [p \in 0..(y * x - 1) |->
        LET i == p \div x
            j == p % x
        IN  [c \in 0..(y * x) |->
                IF c = y * x
                THEN (IF st[i][j] THEN 1 ELSE 0)
                ELSE IF \E b \in 0..(x - 1) : c = i * x + b
                     THEN 1 ELSE 0]]

\* openBox, system construction: row p = i * x + j holds a 1 at every q that
\* shares the column j or the row i, and the cell's state in column boxSize.
BuildMatrix(st, y, x) ==
    [p \in 0..(y * x - 1) |->
        LET i == p \div x
            j == p % x
        IN  [c \in 0..(y * x) |->
                IF c = y * x
                THEN (IF st[i][j] THEN 1 ELSE 0)
                ELSE IF \/ \E a \in 0..(y - 1) : c = a * x + j
                        \/ \E b \in 0..(x - 1) : c = i * x + b
                     THEN 1 ELSE 0]]

\* openBox, pivot search: first r >= row with a 1 in column c, or -1.
FindPivot(m, r0, c) ==
    LET S == {r \in r0..(boxSize - 1) : m[r][c] = 1}
    IN  IF S = {} THEN -1 ELSE CHOOSE r \in S : \A r2 \in S : r <= r2

\* std::swap(matrix[row], matrix[pivot])
SwapRows(m, r1, r2) ==
    [r \in DOMAIN m |-> IF r = r1 THEN m[r2] ELSE IF r = r2 THEN m[r1] ELSE m[r]]

\* Elimination that only clears the rows below the pivot row.
EliminateBelow(m, r0, c0) ==
    [r \in DOMAIN m |->
        IF r > r0 /\ m[r][c0] = 1
        THEN [c \in DOMAIN m[r] |->
                 IF c >= c0 THEN XOR(m[r][c], m[r0][c]) ELSE m[r][c]]
        ELSE m[r]]

\* Elimination whose XOR starts one column late, at c0 + 1.
EliminateAfter(m, r0, c0) ==
    [r \in DOMAIN m |->
        IF r # r0 /\ m[r][c0] = 1
        THEN [c \in DOMAIN m[r] |->
                 IF c > c0 THEN XOR(m[r][c], m[r0][c]) ELSE m[r][c]]
        ELSE m[r]]

\* openBox, zeroing out column c0 in every row but r0; only the columns
\* c0..boxSize are XORed.
Eliminate(m, r0, c0) ==
    [r \in DOMAIN m |->
        IF r # r0 /\ m[r][c0] = 1
        THEN [c \in DOMAIN m[r] |->
                 IF c >= c0 THEN XOR(m[r][c], m[r0][c]) ELSE m[r][c]]
        ELSE m[r]]

\* Consistency check that scans every row instead of the rows from `row`.
InconsistentAll(m, r0) ==
    \E r \in 0..(boxSize - 1) : m[r][boxSize] = 1

\* openBox, consistency check: a row at index >= row with a 1 in the
\* augmented column.
Inconsistent(m, r0) ==
    \E r \in r0..(boxSize - 1) : m[r][boxSize] = 1

\* openBox, solution extraction: free variables are 0.
Solution(m, idx) ==
    [c \in 0..(boxSize - 1) |->
        IF idx[c] # -1 THEN m[idx[c]][boxSize] ELSE 0]

\* Cell decoded column-major: a = q % y, b = q / y.
CellOfColumnMajor(k) == <<k % ySize, k \div ySize>>

\* openBox, application loop: a = q / x, b = q % x.
CellOf(k) == <<k \div xSize, k % xSize>>

--------------------------------------------------------------------------
Init ==
    /\ pc = "start"
    /\ ySize = 0
    /\ xSize = 0
    /\ box = <<>>
    /\ t = 0
    /\ state = <<>>
    /\ matrix = <<>>
    /\ row = 0
    /\ col = 0
    /\ index = <<>>
    /\ ans = <<>>
    /\ q = 0
    /\ calls = <<>>
    /\ trace = <<>>
    /\ result = FALSE

\* A grid handed to the solver in an arbitrary state.
InitAny ==
    /\ pc = "getState"
    /\ \E d \in DimPairs :
          /\ ySize = d[1]
          /\ xSize = d[2]
    /\ box \in Grids(ySize, xSize)
    /\ t = 0
    /\ state = <<>>
    /\ matrix = <<>>
    /\ row = 0
    /\ col = 0
    /\ index = <<>>
    /\ ans = <<>>
    /\ q = 0
    /\ calls = <<>>
    /\ trace = <<>>
    /\ result = FALSE

\* A grid in any state, about to be toggled by a client of the public API.
InitToggle ==
    /\ pc = "toggle"
    /\ \E d \in DimPairs :
          /\ d[1] >= 1
          /\ d[2] >= 1
          /\ ySize = d[1]
          /\ xSize = d[2]
    /\ box \in Grids(ySize, xSize)
    /\ t = 0
    /\ state = <<>>
    /\ matrix = <<>>
    /\ row = 0
    /\ col = 0
    /\ index = <<>>
    /\ ans = <<>>
    /\ q = 0
    /\ calls = <<>>
    /\ trace = <<>>
    /\ result = FALSE

\* One call box.toggle(y, x) with valid indices.
ToggleCall ==
    /\ pc = "toggle"
    /\ \E y \in 0..(ySize - 1), x \in 0..(xSize - 1) :
          /\ box' = toggle(box, y, x)
          /\ trace' = Record(trace, box, y, x)
    /\ UNCHANGED <<pc, ySize, xSize, t, state, matrix, row, col, index, ans, q,
                   calls, result>>

\* SecureBox::SecureBox up to the call of shuffle(); t = rng() % 1000.
Construct ==
    /\ pc = "start"
    /\ \E d \in DimPairs :
          /\ ySize' = d[1]
          /\ xSize' = d[2]
          /\ box' = ZeroBox(d[1], d[2])
    /\ t' \in 0..MaxShuffle
    /\ pc' = "shuffle"
    /\ UNCHANGED <<state, matrix, row, col, index, ans, q, calls, trace, result>>

\* SecureBox::shuffle, one round: toggle(rng() % ySize, rng() % xSize).
ShuffleToggle ==
    /\ pc = "shuffle"
    /\ t > 0
    /\ ySize > 0
    /\ xSize > 0
    /\ \E y \in 0..(ySize - 1), x \in 0..(xSize - 1) :
          box' = toggle(box, y, x)
    /\ t' = t - 1
    /\ UNCHANGED <<pc, ySize, xSize, state, matrix, row, col, index, ans, q,
                   calls, trace, result>>

\* SecureBox::shuffle, one round on a grid with a zero side: rng() % 0 is
\* undefined; the process traps, or the round goes by without a visible
\* effect on the (empty) grid.
ShuffleZeroSide ==
    /\ pc = "shuffle"
    /\ t > 0
    /\ (ySize = 0 \/ xSize = 0)
    /\ \/ pc' = "crashed" /\ t' = t
       \/ pc' = pc /\ t' = t - 1
    /\ UNCHANGED <<ySize, xSize, box, state, matrix, row, col, index, ans, q,
                   calls, trace, result>>

\* SecureBox::shuffle returns; openBox goes on to getState().
ShuffleDone ==
    /\ pc = "shuffle"
    /\ t = 0
    /\ pc' = "getState"
    /\ UNCHANGED <<ySize, xSize, box, t, state, matrix, row, col, index, ans,
                   q, calls, trace, result>>

\* openBox: state = box.getState(), the system matrix, row = 0, index = -1.
Build ==
    /\ pc = "getState"
    /\ state' = box
    /\ matrix' = BuildMatrix(box, ySize, xSize)
    /\ row' = 0
    /\ col' = 0
    /\ index' = [c \in 0..(boxSize - 1) |-> -1]
    /\ pc' = "eliminate"
    /\ UNCHANGED <<ySize, xSize, box, t, ans, q, calls, trace, result>>

\* openBox, elimination loop, an iteration that finds a pivot.
ElimPivot ==
    /\ pc = "eliminate"
    /\ col < boxSize
    /\ row < boxSize
    /\ LET pivot == FindPivot(matrix, row, col)
       IN  /\ pivot # -1
           /\ LET m1 == IF pivot # row THEN SwapRows(matrix, row, pivot)
                                       ELSE matrix
              IN  matrix' = Eliminate(m1, row, col)
    /\ index' = [index EXCEPT ![col] = row]
    /\ row' = row + 1
    /\ col' = col + 1
    /\ UNCHANGED <<pc, ySize, xSize, box, t, state, ans, q, calls, trace, result>>

\* openBox, elimination loop, an iteration without a pivot (continue).
ElimNoPivot ==
    /\ pc = "eliminate"
    /\ col < boxSize
    /\ row < boxSize
    /\ FindPivot(matrix, row, col) = -1
    /\ col' = col + 1
    /\ UNCHANGED <<pc, ySize, xSize, box, t, state, matrix, row, index, ans, q,
                   calls, trace, result>>

\* openBox, the elimination loop ends.
ElimDone ==
    /\ pc = "eliminate"
    /\ ~(col < boxSize /\ row < boxSize)
    /\ pc' = "check"
    /\ UNCHANGED <<ySize, xSize, box, t, state, matrix, row, col, index, ans, q,
                   calls, trace, result>>

\* Consistency check whose early return reports the box as unlocked.
CheckReturnsFalse ==
    /\ pc = "check"
    /\ IF Inconsistent(matrix, row)
       THEN /\ pc' = "nosolution"
            /\ result' = FALSE
            /\ UNCHANGED <<ans, q>>
       ELSE /\ pc' = "apply"
            /\ ans' = Solution(matrix, index)
            /\ q' = 0
            /\ UNCHANGED result
    /\ UNCHANGED <<ySize, xSize, box, t, state, matrix, row, col, index, calls,
                   trace>>

\* openBox: consistency check (return true on "No solution"), else the
\* solution vector.
Check ==
    /\ pc = "check"
    /\ IF Inconsistent(matrix, row)
       THEN /\ pc' = "nosolution"
            /\ result' = TRUE
            /\ UNCHANGED <<ans, q>>
       ELSE /\ pc' = "apply"
            /\ ans' = Solution(matrix, index)
            /\ q' = 0
            /\ UNCHANGED result
    /\ UNCHANGED <<ySize, xSize, box, t, state, matrix, row, col, index, calls,
                   trace>>

\* openBox, application loop, one iteration.
ApplyStep ==
    /\ pc = "apply"
    /\ q < boxSize
    /\ IF ans[q] = 1
       THEN LET c == CellOf(q)
            IN  /\ box' = toggle(box, c[1], c[2])
                /\ calls' = Append(calls, c)
       ELSE UNCHANGED <<box, calls>>
    /\ q' = q + 1
    /\ UNCHANGED <<pc, ySize, xSize, t, state, matrix, row, col, index, ans,
                   trace, result>>

\* openBox: return box.isLocked().
Return ==
    /\ pc = "apply"
    /\ q >= boxSize
    /\ result' = isLocked(box)
    /\ pc' = "done"
    /\ UNCHANGED <<ySize, xSize, box, t, state, matrix, row, col, index, ans, q,
                   calls, trace>>

Solve ==
    \/ Build
    \/ ElimPivot
    \/ ElimNoPivot
    \/ ElimDone
    \/ Check
    \/ ApplyStep
    \/ Return

Next ==
    \/ Construct
    \/ ShuffleToggle
    \/ ShuffleZeroSide
    \/ ShuffleDone
    \/ Solve

\* openBox as the program runs it: construction, shuffle, solve.
Spec == Init /\ [][Next]_vars

\* The solver on a grid in any state, reachable by toggles or not.
SpecAny == InitAny /\ [][Solve]_vars

\* SecureBox::toggle called on a grid in any state.
SpecToggle == InitToggle /\ [][ToggleCall]_vars

--------------------------------------------------------------------------
\* Cells of the current grid and plain readings of its contents.
Cells == (0..(ySize - 1)) \X (0..(xSize - 1))

AnyCellTrue == \E c \in Cells : box[c[1]][c[2]]

AllCellsFalse == \A c \in Cells : ~box[c[1]][c[2]]

\* The grids one toggle call away from a grid of frontier, not yet in seen.
Successors(seen, frontier) ==
    UNION {{toggle(g, c[1], c[2]) : c \in Cells} : g \in frontier} \ seen

\* The grids some finite sequence of toggle calls leads to, from the grids
\* of frontier.
RECURSIVE Closure(_, _)
Closure(seen, frontier) ==
    IF frontier = {}
    THEN seen
    ELSE Closure(seen \cup Successors(seen, frontier), Successors(seen, frontier))

\* The calls toggle(k / x, k % x) for the k < n with ans[k] = 1, k ascending.
RECURSIVE ExpectedCalls(_)
ExpectedCalls(n) ==
    IF n = 0
    THEN <<>>
    ELSE IF ans[n - 1] = 1
         THEN Append(ExpectedCalls(n - 1), <<(n - 1) \div xSize, (n - 1) % xSize>>)
         ELSE ExpectedCalls(n - 1)

\* C1: for every grid with y, x >= 1 that the shuffle leaves behind, openBox
\* never takes the "No solution" return, and when it returns every cell is
\* false and the value returned is false.
C1_ShuffledBoxIsOpened ==
    (ySize >= 1 /\ xSize >= 1) =>
        /\ pc # "nosolution"
        /\ pc = "done" => (AllCellsFalse /\ result = FALSE)

\* C1 witness: a shuffled grid that was locked, solved by at least two toggles.
C1_Witness ==
    /\ pc = "done"
    /\ ySize >= 2
    /\ xSize >= 2
    /\ \E c \in Cells : state[c[1]][c[2]]
    /\ Len(calls) >= 2
    /\ AllCellsFalse

\* C2: on both returns of openBox the value returned is true exactly when
\* some cell of the grid is true at that moment.
C2_ResultIsLockState ==
    (pc \in {"nosolution", "done"}) => (result <=> AnyCellTrue)

\* C2 witness: the "No solution" return, taken with a cell still locked.
C2_Witness ==
    /\ pc = "nosolution"
    /\ result
    /\ AnyCellTrue

C4_ConsistentMeansUnlocked ==
    ((pc = "apply" /\ q >= boxSize) \/ pc = "done") =>
        /\ ~isLocked(box)
        /\ AllCellsFalse
        /\ pc = "done" => result = FALSE
        /\ LET orig == BuildMatrix(state, ySize, xSize)
           IN  \A p \in 0..(boxSize - 1) :
                  Cardinality({k \in 0..(boxSize - 1) :
                                  orig[p][k] = 1 /\ ans[k] = 1}) % 2
                      = orig[p][boxSize]

\* C4 witness: a consistent system with a free variable, its solution applied.
C4_Witness ==
    /\ pc = "done"
    /\ \E c \in 0..(boxSize - 1) : index[c] = -1
    /\ calls # <<>>
    /\ ~isLocked(box)

\* C5: when openBox reports "No solution", no finite sequence of toggle calls
\* leads from the initial grid to the all-false grid.
C5_NoSolutionMeansUnsolvable ==
    pc = "nosolution" =>
        /\ box = state
        /\ ZeroBox(ySize, xSize) \notin Closure({state}, {state})

\* C5 witness: the "No solution" return on a grid with several rows and columns.
C5_Witness ==
    /\ pc = "nosolution"
    /\ ySize >= 2
    /\ xSize >= 2
    /\ Inconsistent(matrix, row)

\* C6: openBox called with y = 0 or x = 0 completes normally and returns
\* false, with no toggle applied.
C6_ZeroSizedGridReturnsFalse ==
    (pc # "start" /\ (ySize = 0 \/ xSize = 0)) =>
        /\ pc # "crashed"
        /\ calls = <<>>
        /\ pc = "done" => result = FALSE

\* C7: toggle(i, j) called twice in succession leaves the grid as it was
\* before the first call, whatever that state was.
C7_DoubleToggleIsIdentity ==
    (Len(trace) = 2 /\ trace[1].at = trace[2].at) => box = trace[1].pre

\* C7 witness: the same cell toggled twice in a row on a grid that was locked.
C7_Witness ==
    /\ Len(trace) = 2
    /\ trace[1].at = trace[2].at
    /\ trace[2].pre # trace[1].pre
    /\ box = trace[1].pre
    /\ AnyCellTrue

\* C8: two toggle calls made in either order end in the same grid, from
\* every grid state (and so does any reordering of a finite collection of
\* calls, which is a chain of such exchanges).
C8_TogglesCommute ==
    Len(trace) = 2 =>
        box = toggle(toggle(trace[1].pre, trace[2].at[1], trace[2].at[2]),
                     trace[1].at[1], trace[1].at[2])

\* C8 witness: two calls at cells in different rows and columns were made.
C8_Witness ==
    /\ Len(trace) = 2
    /\ trace[1].at[1] # trace[2].at[1]
    /\ trace[1].at[2] # trace[2].at[2]
    /\ box # trace[1].pre

\* C9: the application loop issues exactly the calls toggle(k / x, k % x) for
\* the k with ans[k] = 1, in strictly increasing order of k, hence no cell
\* twice; a 1x1 grid that starts locked gets the single call toggle(0, 0).
C9_CallsFollowSolution ==
    /\ pc = "apply" => calls = ExpectedCalls(IF q < boxSize THEN q ELSE boxSize)
    /\ pc = "done" => calls = ExpectedCalls(boxSize)
    /\ \A m \in 1..Len(calls), n \in 1..Len(calls) :
          m < n => calls[m][1] * xSize + calls[m][2] < calls[n][1] * xSize + calls[n][2]
    /\ (pc = "done" /\ ySize = 1 /\ xSize = 1 /\ state[0][0]) =>
          calls = << <<0, 0>> >>

\* C9 witness: a run that ended after toggling cells of two different rows.
C9_Witness ==
    /\ pc = "done"
    /\ Len(calls) >= 2
    /\ calls[1][1] # calls[Len(calls)][1]

\* C10: when the elimination loop has finished, a column with a pivot holds
\* its only 1 in the pivot row, and every row at index >= row is 0 in all
\* the coefficient columns.
C10_ReducedForm ==
    pc = "check" =>
        /\ \A c \in 0..(boxSize - 1) :
              index[c] # -1 =>
                  \A r \in 0..(boxSize - 1) : (matrix[r][c] = 1) <=> (r = index[c])
        /\ \A r \in row..(boxSize - 1), c \in 0..(boxSize - 1) : matrix[r][c] = 0

\* C10 witness: elimination ended with pivots, a free column and a
\* pivotless row whose augmented entry is 1.
C10_Witness ==
    /\ pc = "check"
    /\ row >= 2
    /\ row < boxSize
    /\ \E c \in 0..(boxSize - 1) : index[c] = -1
    /\ \E r \in row..(boxSize - 1) : matrix[r][boxSize] = 1

====
